---------------------------- MODULE Spec2Model ----------------------------
(***************************************************************************)
(* A model of the Ramp CTF solver: HttpClient.fetch (retry loop around one *)
(* https GET), HtmlParser.parse (ordered strategies, first non-empty       *)
(* result wins), UrlExtractor.extract (fetch, parse, join, fetch again),   *)
(* the three extraction strategies (XPath, JSDOM, Regex) and main with its *)
(* command-line flags and exit status.                                     *)
(*                                                                         *)
(* Strings are sequences of one-character strings, so that trim, join,     *)
(* substring containment and tag stripping are computed, not assumed.      *)
(***************************************************************************)
EXTENDS Integers, Sequences, FiniteSets, TLC

(***************************************************************************)
(* Program constants (config/constants.js).                                *)
(***************************************************************************)
MAX_RETRIES == 3

\* Length of the strategy list handed to HtmlParser; index.js configures
\* three strategies, in priority order.
NumStrategies == 3

Strategies == 1..NumStrategies

(***************************************************************************)
(* Characters and strings.                                                 *)
(***************************************************************************)
Whitespace == {" "}

\* s.trim(): leading and trailing whitespace removed.
RECURSIVE TrimLeft(_)
TrimLeft(s) ==
    IF s = << >> THEN << >>
    ELSE IF Head(s) \in Whitespace THEN TrimLeft(Tail(s)) ELSE s

RECURSIVE TrimRight(_)
TrimRight(s) ==
    IF s = << >> THEN << >>
    ELSE IF s[Len(s)] \in Whitespace THEN TrimRight(SubSeq(s, 1, Len(s) - 1)) ELSE s

Trim(s) == TrimRight(TrimLeft(s))

\* characters.join(""): the concatenation of the elements, no separator.
RECURSIVE Join(_)
Join(chars) ==
    IF chars = << >> THEN << >> ELSE Head(chars) \o Join(Tail(chars))

\* Index of the first ">" at or after position i in s, 0 when there is none.
RECURSIVE NextGt(_, _)
NextGt(s, i) ==
    IF i > Len(s) THEN 0
    ELSE IF s[i] = ">" THEN i ELSE NextGt(s, i + 1)

\* response.replace(/<[^>]*>/g, ""): every "<", up to the next ">", removed;
\* a "<" that no ">" follows stays.
RECURSIVE StripTagsFrom(_, _)
StripTagsFrom(s, i) ==
    IF i > Len(s) THEN << >>
    ELSE IF s[i] = "<" /\ NextGt(s, i + 1) # 0
         THEN StripTagsFrom(s, NextGt(s, i + 1) + 1)
         ELSE << s[i] >> \o StripTagsFrom(s, i + 1)

StripTags(s) == StripTagsFrom(s, 1)

(***************************************************************************)
(* Validator.                                                              *)
(***************************************************************************)
\* Scheme letters; "h" stands for the https scheme, the others for schemes
\* the https module refuses.
SchemeChars == {"h", "a"}

\* new URL(url) succeeds: a scheme, a colon and something after it.
IsAbsoluteUrl(u) ==
    /\ Len(u) >= 3
    /\ u[1] \in SchemeChars
    /\ u[2] = ":"

\* validateUrl(url) does not throw.
validateUrl(u) == IsAbsoluteUrl(u)

\* validateHtml(html) does not throw: html is a non-empty string that is
\* not all whitespace.
validateHtml(h) == h # << >> /\ Len(Trim(h)) # 0

\* https.get accepts the URL's protocol (otherwise it throws in the promise
\* executor, which rejects the promise before any request is made).
IsHttps(u) == u[1] = "h"

(***************************************************************************)
(* Inputs.                                                                 *)
(***************************************************************************)
\* URLs handed to extract: an https URL, a URL of another scheme, a string
\* that is no URL.
Urls == { <<"h", ":", "x">>, <<"a", ":", "x">>, <<"x">> }

\* Status codes a response can carry.
Statuses == {200, 201, 299, 300, 404}

\* Response bodies: empty, blank, text, markup with text, markup only.
Bodies == { << >>, <<" ">>, <<"f">>, <<"<", "p", ">", "f", " ">>, <<"<", "p", ">">> }

\* What a strategy's extract can do: throw, return null, return an array.
OutUrl == << <<"h">>, <<":">>, <<"x">> >>

OutOther == << <<"a">>, <<":">>, <<"b">> >>

OutAB == << <<"a">>, <<"b">> >>

\* A value attribute can hold any string: two characters in one value, and
\* an empty value (pushed like any other).
OutLong == << <<"h", ":">>, <<"x">> >>

OutWithEmpty == << <<"a">>, << >> >>

StrategyArrays == { << >>, OutUrl, OutOther, OutAB, OutLong, OutWithEmpty }

StrategyOutcomes ==
    { [kind |-> "throw", chars |-> << >>], [kind |-> "null", chars |-> << >>] }
    \cup { [kind |-> "array", chars |-> a] : a \in StrategyArrays }

NotCalled == [kind |-> "none", chars |-> << >>]

NoAttempt == [kind |-> "none", status |-> 0, body |-> << >>, ok |-> FALSE]

NoSettle == [kind |-> "none", status |-> 0, body |-> << >>]

NullFlag == [isNull |-> TRUE, text |-> << >>]

NoResult == [set |-> FALSE, url |-> << >>, flag |-> NullFlag,
             characters |-> << >>, characterCount |-> 0]

(***************************************************************************)
(* State.                                                                  *)
(***************************************************************************)
VARIABLES
    pc,           \* where the run is
    fetchNo,      \* 0: no fetch yet, 1: _fetchHtml's fetch, 2: _fetchFlag's
    url,          \* fetch's url argument
    retryCount,   \* fetch's retryCount argument
    reqState,     \* the request of the current attempt
    promise,      \* the promise _makeRequest returned
    settle,       \* the event that settled it
    last,         \* the current attempt and how it ended
    entries,      \* per fetch call: how often fetch was entered
    requests,     \* per fetch call: requests issued
    delays,       \* per fetch call: retry delays awaited
    outcome,      \* per fetch call: "none", "returned", "threw"
    inflight,     \* requests issued and not yet ended, destroyed or failed
    html,         \* the document handed to parse
    idx,          \* parse: index of the next strategy
    calls,        \* per strategy: extract calls
    outs,         \* per strategy: what extract did
    characters,   \* what parse returned
    parseState,   \* "none", "returned", "invalid", "allFailed"
    challengeUrl, \* extract's argument
    hiddenUrl,    \* the joined string
    result,       \* what extract returned
    doc,          \* a document tree handed to one strategy
    technique,    \* the strategy applied to it
    selected,     \* the b elements the strategy selected, as it met them
    extracted,    \* the values the strategy returned
    args,         \* process.argv.slice(2)
    exitStatus,   \* the status the process exits with
    runs          \* how often RampCTFSolver.run was called

fetchVars == <<url, retryCount, reqState, promise, settle, last,
               entries, requests, delays, outcome, inflight>>

parseVars == <<idx, calls, outs, characters, parseState>>

runVars == <<fetchNo, challengeUrl, html, hiddenUrl, result>>

extractVars == <<doc, technique, selected, extracted>>

mainVars == <<args, exitStatus, runs>>

vars == <<pc, fetchVars, parseVars, runVars, extractVars, mainVars>>

\* No command line: the run is started by a caller, not by main.
MainInit ==
    /\ args = {}
    /\ exitStatus = 0
    /\ runs = 0

ExtractInit ==
    /\ doc = << >>
    /\ technique = "none"
    /\ selected = << >>
    /\ extracted = << >>

FetchInit ==
    /\ url = << >>
    /\ retryCount = 0
    /\ reqState = "none"
    /\ promise = "none"
    /\ settle = NoSettle
    /\ last = NoAttempt
    /\ entries = [f \in 1..2 |-> 0]
    /\ requests = [f \in 1..2 |-> 0]
    /\ delays = [f \in 1..2 |-> 0]
    /\ outcome = [f \in 1..2 |-> "none"]
    /\ inflight = 0

ParseInit ==
    /\ idx = 1
    /\ calls = [i \in Strategies |-> 0]
    /\ outs = [i \in Strategies |-> NotCalled]
    /\ characters = << >>
    /\ parseState = "none"

\* The run of UrlExtractor.extract(challengeUrl): nothing has happened yet.
Init ==
    /\ pc = "start"
    /\ fetchNo = 0
    /\ html = << >>
    /\ challengeUrl \in Urls
    /\ hiddenUrl = << >>
    /\ result = NoResult
    /\ FetchInit
    /\ ParseInit
    /\ ExtractInit
    /\ MainInit

(***************************************************************************)
(* HttpClient.                                                             *)
(***************************************************************************)
\* A retry test that allows one attempt too many.
ShouldRetry_OneMore(rc) == rc < MAX_RETRIES

\* A retry test that compares with <= instead of <.
ShouldRetry_UpToMax(rc) == rc <= MAX_RETRIES - 1

\* fetch's catch block retries while this holds.
ShouldRetry(rc) == rc < MAX_RETRIES - 1

\* The request's success test at the end of the response.
StatusOk(status) == status = 200

\* The catch block of fetch, reached with retry count rc: await the retry
\* delay, or throw.
CatchBlock(f, rc) ==
    IF ShouldRetry(rc)
    THEN /\ pc' = "await_delay"
         /\ delays' = [delays EXCEPT ![f] = @ + 1]
         /\ outcome' = outcome
    ELSE /\ pc' = "fetch_threw"
         /\ delays' = delays
         /\ outcome' = [outcome EXCEPT ![f] = "threw"]

\* fetch(u, rc) up to its first await: validateUrl, then _makeRequest, which
\* issues the request (or rejects at once when https.get throws).
FetchEntry(f, u, rc) ==
    /\ url' = u
    /\ retryCount' = rc
    /\ entries' = [entries EXCEPT ![f] = @ + 1]
    /\ settle' = NoSettle
    /\ IF ~validateUrl(u)
       THEN /\ last' = [kind |-> "invalid_url", status |-> 0, body |-> << >>, ok |-> FALSE]
            /\ CatchBlock(f, rc)
            /\ UNCHANGED <<reqState, promise, requests, inflight>>
       ELSE /\ last' = [kind |-> "pending", status |-> 0, body |-> << >>, ok |-> FALSE]
            /\ pc' = "await_request"
            /\ UNCHANGED <<delays, outcome>>
            /\ IF IsHttps(u)
               THEN /\ reqState' = "inflight"
                    /\ promise' = "pending"
                    /\ requests' = [requests EXCEPT ![f] = @ + 1]
                    /\ inflight' = inflight + 1
               ELSE /\ reqState' = "none"
                    /\ promise' = "rejected"
                    /\ requests' = requests
                    /\ inflight' = inflight

\* A promise that every call of resolve or reject settles anew.
Settle_Always(how, ev) == promise' = how /\ settle' = ev

\* resolve / reject of the promise: only the first call settles it.
Settle(how, ev) ==
    IF promise = "pending"
    THEN promise' = how /\ settle' = ev
    ELSE UNCHANGED <<promise, settle>>

\* Callbacks run only while the run is suspended on a request or a timer,
\* or after it ended.
Suspended == pc \in {"await_request", "await_delay", "done", "threw"}

\* response.on("end"): the body is complete.
ResponseEnd ==
    /\ Suspended
    /\ reqState = "inflight"
    /\ \E status \in Statuses, body \in Bodies :
          Settle(IF StatusOk(status) THEN "resolved" ELSE "rejected",
                 [kind |-> "end", status |-> status, body |-> body])
    /\ reqState' = "ended"
    /\ inflight' = inflight - 1
    /\ UNCHANGED <<pc, url, retryCount, last, entries, requests, delays, outcome>>
    /\ UNCHANGED <<parseVars, runVars>>
    /\ UNCHANGED extractVars
    /\ UNCHANGED mainVars

\* A timeout callback that rejects but leaves the request alive.
Timeout_NoDestroy ==
    /\ Suspended
    /\ reqState \in {"inflight", "ended"}
    /\ Settle("rejected", [kind |-> "timeout", status |-> 0, body |-> << >>])
    /\ UNCHANGED <<reqState, inflight>>
    /\ UNCHANGED <<pc, url, retryCount, last, entries, requests, delays, outcome>>
    /\ UNCHANGED <<parseVars, runVars>>
    /\ UNCHANGED extractVars
    /\ UNCHANGED mainVars

\* request.setTimeout callback: destroy the request and reject.
Timeout ==
    /\ Suspended
    /\ reqState \in {"inflight", "ended"}
    /\ Settle("rejected", [kind |-> "timeout", status |-> 0, body |-> << >>])
    /\ reqState' = "destroyed"
    /\ inflight' = IF reqState = "inflight" THEN inflight - 1 ELSE inflight
    /\ UNCHANGED <<pc, url, retryCount, last, entries, requests, delays, outcome>>
    /\ UNCHANGED <<parseVars, runVars>>
    /\ UNCHANGED extractVars
    /\ UNCHANGED mainVars

\* request.on("error"): a network error, or the error a destroyed request
\* emits.
RequestError ==
    /\ Suspended
    /\ reqState \in {"inflight", "destroyed"}
    /\ Settle("rejected", [kind |-> "error", status |-> 0, body |-> << >>])
    /\ reqState' = "errored"
    /\ inflight' = IF reqState = "inflight" THEN inflight - 1 ELSE inflight
    /\ UNCHANGED <<pc, url, retryCount, last, entries, requests, delays, outcome>>
    /\ UNCHANGED <<parseVars, runVars>>
    /\ UNCHANGED extractVars
    /\ UNCHANGED mainVars

\* fetch after `await this._makeRequest(url)`: validateHtml and return, or
\* the catch block.
FetchResume ==
    /\ pc = "await_request"
    /\ promise \in {"resolved", "rejected"}
    /\ LET ok == promise = "resolved" /\ validateHtml(settle.body)
           kind == IF promise = "rejected" /\ settle.kind = "none"
                   THEN "sync_throw" ELSE settle.kind
       IN /\ last' = [kind |-> kind, status |-> settle.status,
                      body |-> settle.body, ok |-> ok]
          /\ IF ok
             THEN /\ pc' = "fetch_returned"
                  /\ outcome' = [outcome EXCEPT ![fetchNo] = "returned"]
                  /\ delays' = delays
             ELSE CatchBlock(fetchNo, retryCount)
    /\ UNCHANGED <<url, retryCount, reqState, promise, settle, entries, requests,
                   inflight>>
    /\ UNCHANGED <<parseVars, runVars>>
    /\ UNCHANGED extractVars
    /\ UNCHANGED mainVars

\* fetch after `await this._delay(this.retryDelay)`: the recursive call.
DelayElapsed ==
    /\ pc = "await_delay"
    /\ FetchEntry(fetchNo, url, retryCount + 1)
    /\ UNCHANGED <<parseVars, runVars>>
    /\ UNCHANGED extractVars
    /\ UNCHANGED mainVars

(***************************************************************************)
(* HtmlParser.                                                             *)
(***************************************************************************)
\* An acceptance test that forgets the length check.
Accepted_AnyArray(o) == o.kind = "array"

\* An acceptance test with the wrong length threshold.
Accepted_Strict(o) == o.kind = "array" /\ Len(o.chars) > 2

\* `characters && characters.length > 0`, then validateCharacters: the
\* strategy's result is taken.
Accepted(o) == o.kind = "array" /\ Len(o.chars) > 0

\* What parse returns when the strategy's result o is taken.
Returned(o) == o.chars

\* parse up to the loop: validateHtml throws on an empty or blank document,
\* before any strategy is tried.
ParseCall ==
    /\ pc = "parse_call"
    /\ IF validateHtml(html)
       THEN /\ pc' = "parse_loop"
            /\ parseState' = parseState
       ELSE /\ pc' = "parse_threw"
            /\ parseState' = "invalid"
    /\ idx' = 1
    /\ UNCHANGED <<calls, outs, characters>>
    /\ UNCHANGED <<fetchVars, runVars>>
    /\ UNCHANGED extractVars
    /\ UNCHANGED mainVars

\* A loop that remembers a taken result but does not return before the last
\* strategy was tried.
AfterStrategy_NoReturn(i, o) ==
    IF Accepted(o) /\ i = NumStrategies
    THEN /\ characters' = Returned(o)
         /\ parseState' = "returned"
         /\ pc' = "parse_returned"
         /\ idx' = i
    ELSE /\ characters' = IF Accepted(o) THEN Returned(o) ELSE characters
         /\ parseState' = parseState
         /\ pc' = "parse_loop"
         /\ idx' = i + 1

\* A loop whose catch block rethrows what the strategy threw.
AfterStrategy_ThrowAborts(i, o) ==
    IF o.kind = "throw"
    THEN /\ characters' = characters
         /\ parseState' = "allFailed"
         /\ pc' = "parse_threw"
         /\ idx' = i
    ELSE IF Accepted(o)
    THEN /\ characters' = Returned(o)
         /\ parseState' = "returned"
         /\ pc' = "parse_returned"
         /\ idx' = i
    ELSE /\ characters' = characters
         /\ parseState' = parseState
         /\ pc' = "parse_loop"
         /\ idx' = i + 1

\* After strategy i was tried and its result o seen: return it, or go on.
AfterStrategy(i, o) ==
    IF Accepted(o)
    THEN /\ characters' = Returned(o)
         /\ parseState' = "returned"
         /\ pc' = "parse_returned"
         /\ idx' = i
    ELSE /\ characters' = characters
         /\ parseState' = parseState
         /\ pc' = "parse_loop"
         /\ idx' = i + 1

\* One turn of the loop: the next strategy's extract is called; it throws,
\* returns null or returns an array.
TryStrategy ==
    /\ pc = "parse_loop"
    /\ idx <= NumStrategies
    /\ \E o \in StrategyOutcomes :
          /\ calls' = [calls EXCEPT ![idx] = @ + 1]
          /\ outs' = [outs EXCEPT ![idx] = o]
          /\ AfterStrategy(idx, o)
    /\ UNCHANGED <<fetchVars, runVars>>
    /\ UNCHANGED extractVars
    /\ UNCHANGED mainVars

\* An end of the loop that returns the (empty) last result instead of
\* throwing.
ParseExhausted_ReturnEmpty ==
    /\ pc = "parse_loop"
    /\ idx > NumStrategies
    /\ pc' = "parse_returned"
    /\ parseState' = "returned"
    /\ UNCHANGED <<idx, calls, outs, characters>>
    /\ UNCHANGED <<fetchVars, runVars>>
    /\ UNCHANGED extractVars
    /\ UNCHANGED mainVars

\* The loop ended without a return: "All extraction strategies failed".
ParseExhausted ==
    /\ pc = "parse_loop"
    /\ idx > NumStrategies
    /\ pc' = "parse_threw"
    /\ parseState' = "allFailed"
    /\ UNCHANGED <<idx, calls, outs, characters>>
    /\ UNCHANGED <<fetchVars, runVars>>
    /\ UNCHANGED extractVars
    /\ UNCHANGED mainVars

(***************************************************************************)
(* UrlExtractor.                                                           *)
(***************************************************************************)
\* extract: step 1 starts, fetch(challengeUrl) runs to its first await.
ExtractCall ==
    /\ pc = "start"
    /\ fetchNo' = 1
    /\ FetchEntry(1, challengeUrl, 0)
    /\ UNCHANGED <<challengeUrl, html, hiddenUrl, result>>
    /\ UNCHANGED parseVars
    /\ UNCHANGED extractVars
    /\ UNCHANGED mainVars

\* A _fetchHtml that swallows the fetch error and goes on with no document.
FetchHtmlDone_Swallow ==
    /\ fetchNo = 1
    /\ \/ /\ pc = "fetch_returned"
          /\ html' = last.body
       \/ /\ pc = "fetch_threw"
          /\ html' = <<"f">>
    /\ pc' = "parse_call"
    /\ UNCHANGED <<fetchNo, challengeUrl, hiddenUrl, result>>
    /\ UNCHANGED <<fetchVars, parseVars>>
    /\ UNCHANGED extractVars
    /\ UNCHANGED mainVars

\* _fetchHtml after its fetch: the document goes to parse, or the error is
\* rethrown and extract throws.
FetchHtmlDone ==
    /\ fetchNo = 1
    /\ \/ /\ pc = "fetch_returned"
          /\ html' = last.body
          /\ pc' = "parse_call"
       \/ /\ pc = "fetch_threw"
          /\ html' = html
          /\ pc' = "threw"
    /\ UNCHANGED <<fetchNo, challengeUrl, hiddenUrl, result>>
    /\ UNCHANGED <<fetchVars, parseVars>>
    /\ UNCHANGED extractVars
    /\ UNCHANGED mainVars

\* _extractCharacters rethrows what parse threw: extract throws.
ParseThrew ==
    /\ pc = "parse_threw"
    /\ pc' = "threw"
    /\ UNCHANGED <<fetchVars, parseVars, runVars>>
    /\ UNCHANGED extractVars
    /\ UNCHANGED mainVars

\* _buildUrl: the joined string, valid URL or not.
buildUrl(chars) == Join(chars)

\* Steps 3 and 4 start: the URL is built and fetch(hiddenUrl) runs to its
\* first await.
BuildUrlAndFetchFlag ==
    /\ pc = "parse_returned"
    /\ hiddenUrl' = buildUrl(characters)
    /\ fetchNo' = 2
    /\ FetchEntry(2, hiddenUrl', 0)
    /\ UNCHANGED <<challengeUrl, html, result>>
    /\ UNCHANGED parseVars
    /\ UNCHANGED extractVars
    /\ UNCHANGED mainVars

\* The flag of a response: tags removed, trimmed.
FlagOf(response) == [isNull |-> FALSE, text |-> Trim(StripTags(response))]

MkResult(flag) ==
    [set |-> TRUE, url |-> hiddenUrl, flag |-> flag,
     characters |-> characters, characterCount |-> Len(characters)]

\* A _fetchFlag that rethrows instead of returning null.
FetchFlagDone_Rethrow ==
    /\ fetchNo = 2
    /\ \/ /\ pc = "fetch_returned"
          /\ result' = MkResult(FlagOf(last.body))
          /\ pc' = "done"
       \/ /\ pc = "fetch_threw"
          /\ result' = result
          /\ pc' = "threw"
    /\ UNCHANGED <<fetchNo, challengeUrl, html, hiddenUrl>>
    /\ UNCHANGED <<fetchVars, parseVars>>
    /\ UNCHANGED extractVars
    /\ UNCHANGED mainVars

\* _fetchFlag after its fetch, and the end of extract: the flag, or null
\* when the fetch threw; the result is returned either way.
FetchFlagDone ==
    /\ fetchNo = 2
    /\ \/ /\ pc = "fetch_returned"
          /\ result' = MkResult(FlagOf(last.body))
       \/ /\ pc = "fetch_threw"
          /\ result' = MkResult(NullFlag)
    /\ pc' = "done"
    /\ UNCHANGED <<fetchNo, challengeUrl, html, hiddenUrl>>
    /\ UNCHANGED <<fetchVars, parseVars>>
    /\ UNCHANGED extractVars
    /\ UNCHANGED mainVars

(***************************************************************************)
(* Specifications.                                                         *)
(***************************************************************************)
Next ==
    \/ ExtractCall
    \/ ResponseEnd
    \/ Timeout
    \/ RequestError
    \/ FetchResume
    \/ DelayElapsed
    \/ FetchHtmlDone
    \/ ParseCall
    \/ TryStrategy
    \/ ParseExhausted
    \/ ParseThrew
    \/ BuildUrlAndFetchFlag
    \/ FetchFlagDone

Spec == Init /\ [][Next]_vars

\* Scheduling of a run: a continuation that can run does run, a timer that
\* was set fires, and every request in flight ends, fails or times out.
Fairness ==
    /\ WF_vars(ExtractCall \/ FetchResume \/ FetchHtmlDone \/ ParseCall
                  \/ TryStrategy \/ ParseExhausted \/ ParseThrew
                  \/ BuildUrlAndFetchFlag \/ FetchFlagDone)
    /\ WF_vars(DelayElapsed)
    /\ WF_vars(reqState = "inflight" /\ (ResponseEnd \/ Timeout \/ RequestError))

SpecLive == Init /\ [][Next]_vars /\ Fairness

\* HtmlParser.parse called on its own with any document.
InitParse ==
    /\ pc = "parse_call"
    /\ fetchNo = 0
    /\ challengeUrl = << >>
    /\ html \in Bodies
    /\ hiddenUrl = << >>
    /\ result = NoResult
    /\ FetchInit
    /\ ParseInit
    /\ ExtractInit
    /\ MainInit

NextParse ==
    \/ ParseCall
    \/ TryStrategy
    \/ ParseExhausted

SpecParse == InitParse /\ [][NextParse]_vars

(***************************************************************************)
(* index.js: main and RampCTFSolver.run.                                   *)
(***************************************************************************)
\* CHALLENGE_URL, an https URL.
CHALLENGE_URL == <<"h", ":", "x">>

\* The arguments a command line is built from.
ArgFlags == {"--help", "-h", "--debug", "-d"}

\* A parseArgs that knows only the long form of the help flag.
parseArgs_LongOnly(a) ==
    [debug |-> "--debug" \in a \/ "-d" \in a, help |-> "--help" \in a]

\* parseArgs: the options the arguments switch on.
parseArgs(a) ==
    [debug |-> "--debug" \in a \/ "-d" \in a,
     help |-> "--help" \in a \/ "-h" \in a]

\* main up to its await: with the help option, displayHelp and
\* process.exit(0); otherwise a solver is built and run() calls extract.
Main ==
    /\ pc = "main"
    /\ IF parseArgs(args).help
       THEN /\ pc' = "exited"
            /\ exitStatus' = 0
            /\ runs' = runs
       ELSE /\ pc' = "start"
            /\ exitStatus' = exitStatus
            /\ runs' = runs + 1
    /\ UNCHANGED <<args, fetchVars, parseVars, runVars, extractVars>>

\* run's catch block: extract threw, process.exit(1).
RunCatch ==
    /\ pc = "threw"
    /\ pc' = "exited"
    /\ exitStatus' = 1
    /\ UNCHANGED <<args, runs, fetchVars, parseVars, runVars, extractVars>>

\* run returned the result and main's promise resolved: the process ends
\* with the default status once nothing is left to do.
RunReturned ==
    /\ pc = "done"
    /\ pc' = "exited"
    /\ exitStatus' = 0
    /\ UNCHANGED <<args, runs, fetchVars, parseVars, runVars, extractVars>>

\* The process started from a command line.
InitMain ==
    /\ pc = "main"
    /\ args \in SUBSET ArgFlags
    /\ exitStatus = 0
    /\ runs = 0
    /\ fetchNo = 0
    /\ html = << >>
    /\ challengeUrl = CHALLENGE_URL
    /\ hiddenUrl = << >>
    /\ result = NoResult
    /\ FetchInit
    /\ ParseInit
    /\ ExtractInit

NextMain ==
    \/ Main
    \/ ExtractCall
    \/ ResponseEnd
    \/ Timeout
    \/ RequestError
    \/ FetchResume
    \/ DelayElapsed
    \/ FetchHtmlDone
    \/ ParseCall
    \/ TryStrategy
    \/ ParseExhausted
    \/ ParseThrew
    \/ BuildUrlAndFetchFlag
    \/ FetchFlagDone
    \/ RunCatch
    \/ RunReturned

SpecMain == InitMain /\ [][NextMain]_vars

(***************************************************************************)
(* Extraction strategies.                                                  *)
(*                                                                         *)
(* A document is the sequence of its elements in document order; each      *)
(* element names its parent (0: none), the value of the one attribute the  *)
(* pattern reads at its level (data-id, data-class, data-tag, class) and,  *)
(* for a b element, its value attribute.                                   *)
(***************************************************************************)
SECTION_DATA_ID == <<"9", "2">>

ARTICLE_DATA_CLASS == <<"4", "5">>

DIV_DATA_TAG == <<"7", "8">>

B_CLASS == <<"r", "e", "f">>

\* Largest number of elements of a generated document tree.
MaxNodes == 5

\* sub occurs in s (contains(), [attr*=...], [^"]*sub[^"]*).
Contains(s, sub) ==
    \E i \in 1..(Len(s) - Len(sub) + 1) : SubSeq(s, i, i + Len(sub) - 1) = sub

\* The whitespace-separated tokens of a class attribute.
RECURSIVE TokensFrom(_, _)
TokensFrom(s, cur) ==
    IF s = << >> THEN (IF cur = << >> THEN {} ELSE {cur})
    ELSE IF Head(s) \in Whitespace
         THEN (IF cur = << >> THEN {} ELSE {cur}) \cup TokensFrom(Tail(s), << >>)
         ELSE TokensFrom(Tail(s), Append(cur, Head(s)))

ClassTokens(s) == TokensFrom(s, << >>)

\* Case folding, as the regex flag "i" does.
Lower(c) ==
    CASE c = "R" -> "r"
      [] c = "E" -> "e"
      [] c = "F" -> "f"
      [] OTHER -> c

LowerStr(s) == [i \in 1..Len(s) |-> Lower(s[i])]

\* a is an ancestor of n in d.
RECURSIVE IsAncestor(_, _, _)
IsAncestor(d, a, n) ==
    IF d[n].parent = 0 THEN FALSE
    ELSE d[n].parent = a \/ IsAncestor(d, a, d[n].parent)

Indices(d) == [i \in 1..Len(d) |-> i]

\* The first three levels, the same test in all three strategies.
SectionMatch(d, n) == d[n].tag = "section" /\ Contains(d[n].attr, SECTION_DATA_ID)

ArticleMatch(d, n) == d[n].tag = "article" /\ Contains(d[n].attr, ARTICLE_DATA_CLASS)

DivMatch(d, n) == d[n].tag = "div" /\ Contains(d[n].attr, DIV_DATA_TAG)

\* //b[@class='ref']
XPathB(d, n) == d[n].tag = "b" /\ d[n].attr = B_CLASS

\* b.ref[value]: ref is one of the class tokens.
SelectorB(d, n) == d[n].tag = "b" /\ B_CLASS \in ClassTokens(d[n].attr)

\* <b[^>]*class="ref"[^>]*value="([^"]*)" under the flag "i".
RegexB(d, n) == d[n].tag = "b" /\ LowerStr(d[n].attr) = B_CLASS

\* The test a selector, a path step or a part of the regex makes of element n.
Matches(level, d, n) ==
    CASE level = "section" -> SectionMatch(d, n)
      [] level = "article" -> ArticleMatch(d, n)
      [] level = "div" -> DivMatch(d, n)
      [] level = "b.xpath" -> XPathB(d, n)
      [] level = "b.selector" -> SelectorB(d, n)
      [] level = "b.regex" -> RegexB(d, n)

\* querySelectorAll: the elements below root (0: the whole document) that
\* match, in document order.
SelectWithin(d, root, level) ==
    SelectSeq(Indices(d),
              LAMBDA n : (root = 0 \/ IsAncestor(d, root, n)) /\ Matches(level, d, n))

\* XPathStrategy: the node set of
\* //section[..]//article[..]//div[..]//b[@class='ref'], in document order.
XPathSelect(d) ==
    SelectSeq(Indices(d), LAMBDA n :
        /\ XPathB(d, n)
        /\ \E v \in 1..Len(d) :
              /\ DivMatch(d, v) /\ IsAncestor(d, v, n)
              /\ \E a \in 1..Len(d) :
                    /\ ArticleMatch(d, a) /\ IsAncestor(d, a, v)
                    /\ \E t \in 1..Len(d) :
                          SectionMatch(d, t) /\ IsAncestor(d, t, a))

\* JSDOMStrategy: four nested querySelectorAll loops, innermost first here;
\* every b met is pushed.
RECURSIVE ForEachDiv(_, _)
ForEachDiv(d, divs) ==
    IF divs = << >> THEN << >>
    ELSE SelectWithin(d, Head(divs), "b.selector") \o ForEachDiv(d, Tail(divs))

RECURSIVE ForEachArticle(_, _)
ForEachArticle(d, articles) ==
    IF articles = << >> THEN << >>
    ELSE ForEachDiv(d, SelectWithin(d, Head(articles), "div"))
            \o ForEachArticle(d, Tail(articles))

RECURSIVE ForEachSection(_, _)
ForEachSection(d, sections) ==
    IF sections = << >> THEN << >>
    ELSE ForEachArticle(d, SelectWithin(d, Head(sections), "article"))
            \o ForEachSection(d, Tail(sections))

JSDOMSelect(d) == ForEachSection(d, SelectWithin(d, 0, "section"))

\* The first element at or after position pos that matches, 0 if none.
RECURSIVE FirstFrom(_, _, _)
FirstFrom(d, pos, level) ==
    IF pos > Len(d) THEN 0
    ELSE IF Matches(level, d, pos) THEN pos ELSE FirstFrom(d, pos + 1, level)

\* RegexStrategy: pattern.exec in a loop. One match runs from a section tag
\* over the next article tag and the next div tag to the next b tag, whatever
\* lies between; the next match starts behind that b tag.
RECURSIVE RegexSelectFrom(_, _)
RegexSelectFrom(d, pos) ==
    LET t == FirstFrom(d, pos, "section")
        a == IF t = 0 THEN 0 ELSE FirstFrom(d, t + 1, "article")
        v == IF a = 0 THEN 0 ELSE FirstFrom(d, a + 1, "div")
        b == IF v = 0 THEN 0 ELSE FirstFrom(d, v + 1, "b.regex")
    IN  IF b = 0 THEN << >> ELSE <<b>> \o RegexSelectFrom(d, b + 1)

RegexSelect(d) == RegexSelectFrom(d, 1)

\* getAttribute("value") of each selected element, pushed in turn.
Values(d, sel) == [k \in 1..Len(sel) |-> d[sel[k]].value]

(***************************************************************************)
(* Documents.                                                              *)
(***************************************************************************)
Letters == <<"a", "b", "c", "d", "e", "f", "g", "h">>

\* The value attribute of the element at position n: its own letter.
ValueAt(n) == << Letters[((n - 1) % Len(Letters)) + 1] >>

MkNode(tag, parent, attr, n) ==
    [tag |-> tag, parent |-> parent, attr |-> attr, value |-> ValueAt(n)]

\* The elements of generated trees: a section, an article, a div and a b
\* that satisfy the pattern's test at their level.
TreeKinds ==
    { <<"section", SECTION_DATA_ID>>, <<"article", ARTICLE_DATA_CLASS>>,
      <<"div", DIV_DATA_TAG>>, <<"b", B_CLASS>> }

\* n and its ancestors under the parent vector par.
RECURSIVE PathTo(_, _)
PathTo(par, n) == IF n = 0 THEN {} ELSE {n} \cup PathTo(par, par[n])

\* The parent vectors of the trees of n elements listed in document order:
\* an element hangs below the element before it, below one of that
\* element's ancestors, or below nothing.
ParentVectors(n) ==
    { par \in [1..n -> 0..(n - 1)] :
        \A i \in 1..n :
            IF par[i] = 0 THEN TRUE
            ELSE par[i] < i /\ par[i] \in PathTo(par, i - 1) }

\* The tree with parent vector par and elements kinds; a b has no children.
WellFormed(par, kinds) ==
    \A i \in DOMAIN par : IF par[i] = 0 THEN TRUE ELSE kinds[par[i]][1] # "b"

MkTree(par, kinds) ==
    [i \in DOMAIN par |-> MkNode(kinds[i][1], par[i], kinds[i][2], i)]

\* Attribute values to try at each level of the pattern.
SectionIds == { <<"9", "2">>, <<"x", "9", "2", "y">>, <<"9", "2", "0">>, <<"9", "1">> }

ArticleClasses == { <<"4", "5">>, <<"5", "4">> }

DivTags == { <<"7", "8">>, <<"8", "7">> }

BClasses ==
    { <<"r", "e", "f">>, <<"r", "e", "f", "e", "r", "e", "n", "c", "e">>,
      <<"r", "e", "f", " ", "o">>, <<"R", "E", "F">> }

\* section > article > div > b, one b, every attribute value tried.
ChainDocs ==
    { << MkNode("section", 0, i, 1), MkNode("article", 1, c, 2),
         MkNode("div", 2, t, 3), MkNode("b", 3, k, 4) >> :
        i \in SectionIds, c \in ArticleClasses, t \in DivTags, k \in BClasses }

\* doc is a document a strategy is tried on: a tree of at most MaxNodes
\* elements, or a chain.
DrawDoc ==
    \/ \E n \in 0..MaxNodes : \E par \in ParentVectors(n) :
          \E kinds \in [1..n -> TreeKinds] :
             /\ WellFormed(par, kinds)
             /\ doc = MkTree(par, kinds)
    \/ doc \in ChainDocs

\* One strategy's extract called on one document.
InitExtract ==
    /\ pc = "extract"
    /\ DrawDoc
    /\ technique = "none"
    /\ selected = << >>
    /\ extracted = << >>
    /\ fetchNo = 0
    /\ challengeUrl = << >>
    /\ html = << >>
    /\ hiddenUrl = << >>
    /\ result = NoResult
    /\ FetchInit
    /\ ParseInit
    /\ MainInit

\* XPathStrategy.extract(doc).
XPathExtract ==
    /\ pc = "extract"
    /\ technique' = "XPath"
    /\ selected' = XPathSelect(doc)
    /\ extracted' = Values(doc, selected')
    /\ pc' = "extracted"
    /\ UNCHANGED <<doc, fetchVars, parseVars, runVars, mainVars>>

\* JSDOMStrategy.extract(doc).
JSDOMExtract ==
    /\ pc = "extract"
    /\ technique' = "JSDOM"
    /\ selected' = JSDOMSelect(doc)
    /\ extracted' = Values(doc, selected')
    /\ pc' = "extracted"
    /\ UNCHANGED <<doc, fetchVars, parseVars, runVars, mainVars>>

\* RegexStrategy.extract(doc).
RegexExtract ==
    /\ pc = "extract"
    /\ technique' = "Regex"
    /\ selected' = RegexSelect(doc)
    /\ extracted' = Values(doc, selected')
    /\ pc' = "extracted"
    /\ UNCHANGED <<doc, fetchVars, parseVars, runVars, mainVars>>

NextExtract ==
    \/ XPathExtract
    \/ JSDOMExtract
    \/ RegexExtract

SpecExtract == InitExtract /\ [][NextExtract]_vars

(***************************************************************************)
(* Properties.                                                             *)
(***************************************************************************)
\* A strategy was called and returned a non-empty array.
NonEmptyOut(i) == outs[i].kind = "array" /\ outs[i].chars # << >>

\* The url argument of fetch call f.
UrlOf(f) == IF f = 1 THEN challengeUrl ELSE hiddenUrl

\* C1: in parse, once a strategy's extract has returned a non-empty
\* sequence, no strategy later in the list is ever invoked: its call count
\* stays 0.
C1_NoLaterStrategyInvoked ==
    \A i \in Strategies : \A j \in Strategies :
        (i < j /\ NonEmptyOut(i)) => calls[j] = 0

\* C1 witness: parse returned on a strategy that is not the last one.
C1_Witness ==
    /\ pc = "parse_returned"
    /\ \E i \in Strategies : i < NumStrategies /\ NonEmptyOut(i) /\ calls[i] = 1

\* C2 as stated: a fetch call whose attempts all fail retries MAX_RETRIES
\* times after the first attempt (MAX_RETRIES + 1 attempts) before it throws;
\* a fetch call whose first attempt succeeds makes one request and awaits no
\* delay.
C2_RetriesMaxRetriesTimes ==
    \A f \in 1..2 :
        /\ outcome[f] = "threw" =>
              (entries[f] = MAX_RETRIES + 1 /\ delays[f] = MAX_RETRIES)
        /\ (outcome[f] = "returned" /\ entries[f] = 1) =>
              (requests[f] = 1 /\ delays[f] = 0)

\* C2 amended: a fetch call whose attempts all fail makes MAX_RETRIES
\* attempts in all (the first and MAX_RETRIES - 1 retries, one delay before
\* each retry) and then throws, with MAX_RETRIES requests when the URL is an
\* https URL; a fetch call whose first attempt succeeds makes one request
\* and awaits no delay.
C2_AttemptsMaxRetriesTimes ==
    \A f \in 1..2 :
        /\ outcome[f] = "threw" =>
              /\ entries[f] = MAX_RETRIES
              /\ delays[f] = MAX_RETRIES - 1
              /\ requests[f] <= MAX_RETRIES
              /\ (IsAbsoluteUrl(UrlOf(f)) /\ IsHttps(UrlOf(f))) =>
                    requests[f] = MAX_RETRIES
        /\ (outcome[f] = "returned" /\ entries[f] = 1) =>
              (requests[f] = 1 /\ delays[f] = 0)

\* C2 witness: the first fetch threw after MAX_RETRIES requests.
C2_Witness ==
    /\ outcome[1] = "threw"
    /\ requests[1] = MAX_RETRIES

\* C3 as stated: fetch called with a string that is no absolute URL fails
\* without retry: no delay is awaited, fetch is not entered again and no
\* request is issued.
C3_InvalidUrlNotRetried ==
    \A f \in 1..2 :
        (entries[f] > 0 /\ ~IsAbsoluteUrl(UrlOf(f))) =>
            (delays[f] = 0 /\ entries[f] = 1 /\ requests[f] = 0)

\* C4 as stated: an attempt that ends with status 200 and an empty or blank
\* body makes fetch fail without retry: one request in that fetch call, no
\* delay awaited.
C4_EmptyBodyNotRetried ==
    \A f \in 1..2 :
        (fetchNo = f /\ last.kind = "end" /\ last.status = 200
            /\ Trim(last.body) = << >>) =>
            (requests[f] = 1 /\ delays[f] = 0 /\ pc # "await_delay")

\* C5 as stated: an attempt with a non-empty body, a network error or a
\* timeout fails exactly when the status is not 2xx, a network error
\* occurred or the timeout fired: any status 200..299 with a non-empty body
\* makes fetch return on that attempt.
C5_Any2xxSucceeds ==
    (last.kind \in {"end", "timeout", "error", "sync_throw"}
        /\ (last.kind = "end" => Trim(last.body) # << >>)) =>
        (last.ok <=> (last.kind = "end" /\ last.status \in 200..299))

\* C6: if the first fetch and the parse succeed, extract returns a result
\* whose url is the joined string and whose characters are the parsed
\* sequence; flag is null exactly when the second fetch threw, and extract
\* never throws then.
C6_FlagFetchDegrades ==
    /\ pc = "done" =>
          /\ result.set
          /\ result.characters = outs[idx].chars
          /\ result.url = Join(outs[idx].chars)
          /\ result.flag.isNull <=> outcome[2] = "threw"
    /\ (outcome[1] = "returned" /\ parseState = "returned") => pc # "threw"
    /\ (outcome[1] = "returned" /\ parseState = "returned" /\ pc # "done") =>
          ENABLED Next

\* C6 witness: extract returned with a null flag after the second fetch
\* threw.
C6_Witness ==
    /\ pc = "done"
    /\ outcome[1] = "returned"
    /\ outcome[2] = "threw"
    /\ result.flag.isNull
    /\ result.url = Join(characters)

\* C7 as stated: parse throws only if every strategy was tried and each
\* threw or returned nothing.
C7_FailsOnlyAfterAllTried ==
    pc = "parse_threw" =>
        \A i \in Strategies : calls[i] = 1 /\ ~NonEmptyOut(i)

\* C7 amended: parse throws only if the document is empty or blank (then no
\* strategy is invoked), or every strategy was tried and each threw or
\* returned nothing.
C7_FailsOnlyInvalidOrAllTried ==
    pc = "parse_threw" =>
        \/ /\ Trim(html) = << >>
           /\ \A i \in Strategies : calls[i] = 0
        \/ /\ Trim(html) # << >>
           /\ \A i \in Strategies : calls[i] = 1 /\ ~NonEmptyOut(i)

\* C7 witness: parse threw after every strategy was tried, one of them
\* throwing and one returning an empty array.
C7_Witness ==
    /\ pc = "parse_threw"
    /\ \A i \in Strategies : calls[i] = 1
    /\ \E i \in Strategies : outs[i].kind = "throw"
    /\ \E i \in Strategies : outs[i].kind = "array"

\* C8: what parse returns is the output of exactly one strategy, the first
\* in priority order that returned a non-empty sequence; every strategy
\* before it was tried and threw or returned nothing.
C8_FirstNonEmptyWins ==
    pc = "parse_returned" =>
        \E i \in Strategies :
            /\ NonEmptyOut(i)
            /\ characters = outs[i].chars
            /\ \A j \in Strategies : j < i => (calls[j] = 1 /\ ~NonEmptyOut(j))
            /\ \A j \in Strategies : j > i => calls[j] = 0

\* C8 witness: parse returned the last strategy's output after an earlier
\* strategy threw and another returned an empty array.
C8_Witness ==
    /\ pc = "parse_returned"
    /\ NonEmptyOut(NumStrategies)
    /\ characters = outs[NumStrategies].chars
    /\ \E j \in Strategies : outs[j].kind = "throw"
    /\ \E j \in Strategies : outs[j].kind = "array" /\ outs[j].chars = << >>

\* url.split(""): one element per character of the string.
SplitChars(s) == [i \in 1..Len(s) |-> << s[i] >>]

\* C11 as stated: for every sequence parse returns, splitting the joined
\* string per character gives the sequence back, and the result's
\* characterCount is the length of its url.
C11_JoinSplitRoundTrip ==
    /\ parseState = "returned" => SplitChars(buildUrl(characters)) = characters
    /\ result.set =>
          /\ SplitChars(result.url) = result.characters
          /\ result.characterCount = Len(result.url)

\* parse has started (it was called, is in its loop, or has ended).
ParseStarted ==
    \/ pc \in {"parse_call", "parse_loop", "parse_returned", "parse_threw"}
    \/ parseState # "none"
    \/ \E i \in Strategies : calls[i] > 0

\* C12: extract does fetch(challengeUrl), parse, join, fetch(joined string)
\* in this order: parse starts only after the first fetch returned, on the
\* document it returned; the string is joined and the second fetch entered
\* only after parse returned; when the first fetch or the parse fails,
\* extract throws (it cannot return) and no second fetch is entered and no
\* request for the joined string issued.
C12_StepsInOrder ==
    /\ ParseStarted =>
          /\ outcome[1] = "returned"
          /\ fetchNo = 1 => html = last.body
    /\ (fetchNo = 2 \/ entries[2] > 0 \/ hiddenUrl # << >>) =>
          /\ parseState = "returned"
          /\ outcome[1] = "returned"
          /\ hiddenUrl = Join(characters)
          /\ url = hiddenUrl
    /\ (outcome[1] = "threw" \/ parseState \in {"invalid", "allFailed"}) =>
          /\ fetchNo = 1
          /\ entries[2] = 0
          /\ requests[2] = 0
          /\ ~result.set
          /\ pc \in {"fetch_threw", "parse_threw", "threw"}
          /\ pc # "threw" => ENABLED (FetchHtmlDone \/ ParseThrew)
    /\ pc = "threw" =>
          (outcome[1] = "threw" \/ parseState \in {"invalid", "allFailed"})

\* C12 witness: parse failed after a successful first fetch, extract threw
\* and the second fetch was never entered.
C12_Witness ==
    /\ pc = "threw"
    /\ outcome[1] = "returned"
    /\ parseState = "allFailed"
    /\ entries[2] = 0
    /\ requests[1] > 0

\* Every strategy was called and returned an empty array.
AllReturnedEmpty ==
    \A i \in Strategies :
        calls[i] = 1 /\ outs[i].kind = "array" /\ outs[i].chars = << >>

\* C13: when every strategy returned an empty sequence without throwing,
\* parse fails with the all-strategies-failed error (it is about to throw
\* it, or has thrown it); and parse never returns an empty sequence.
C13_AllEmptyFails ==
    /\ AllReturnedEmpty =>
          \/ pc = "parse_loop" /\ idx > NumStrategies /\ ENABLED ParseExhausted
          \/ pc = "parse_threw" /\ parseState = "allFailed"
    /\ AllReturnedEmpty => parseState # "returned"
    /\ (pc = "parse_returned" \/ parseState = "returned") =>
          (characters # << >> /\ Len(characters) > 0)

\* C13 witness: parse threw the all-strategies-failed error after every
\* strategy returned an empty array.
C13_Witness ==
    /\ AllReturnedEmpty
    /\ pc = "parse_threw"
    /\ parseState = "allFailed"

\* C14: an error thrown by a strategy does not abort parse: the next
\* strategy is about to be invoked or was invoked, and when parse throws
\* after a strategy threw, it throws the all-strategies-failed error after
\* every strategy was tried and none returned a non-empty sequence.
C14_StrategyErrorSwallowed ==
    /\ \A i \in Strategies :
          (outs[i].kind = "throw" /\ i < NumStrategies) =>
              \/ pc = "parse_loop" /\ idx = i + 1 /\ ENABLED TryStrategy
              \/ calls[i + 1] = 1
    /\ (pc = "parse_threw" /\ \E i \in Strategies : outs[i].kind = "throw") =>
          /\ parseState = "allFailed"
          /\ \A j \in Strategies : calls[j] = 1 /\ ~NonEmptyOut(j)
    /\ \A i \in Strategies :
          (outs[i].kind = "throw" /\ \E j \in Strategies : j > i /\ NonEmptyOut(j)) =>
              parseState = "returned"

\* C14 witness: the first strategy threw and parse returned what the second
\* one extracted.
C14_Witness ==
    /\ pc = "parse_returned"
    /\ outs[1].kind = "throw"
    /\ NonEmptyOut(2)
    /\ characters = outs[2].chars

\* --help or -h is among the arguments.
HelpGiven == "--help" \in args \/ "-h" \in args

\* The pipeline failed: the first fetch or the parse threw.
PipelineFailed ==
    outcome[1] = "threw" \/ parseState \in {"invalid", "allFailed"}

\* C15: with --help or -h among the arguments, whatever the other flags,
\* the pipeline is never run (run is not called, no fetch entered, no
\* request issued) and the exit status is 0; without them the pipeline is
\* run exactly once and the exit status is non-zero exactly when the
\* pipeline failed.
C15_ExitStatus ==
    /\ HelpGiven =>
          /\ runs = 0
          /\ fetchNo = 0
          /\ \A f \in 1..2 : entries[f] = 0 /\ requests[f] = 0
          /\ pc \in {"main", "exited"}
          /\ pc = "exited" => exitStatus = 0
    /\ ~HelpGiven =>
          /\ runs <= 1
          /\ pc # "main" => runs = 1
          /\ pc \notin {"main", "start"} => entries[1] >= 1
          /\ pc = "exited" =>
                /\ exitStatus # 0 <=> PipelineFailed
                /\ exitStatus = 0 <=> result.set

\* C15 witness: help given together with a debug flag, the process exited.
C15_Witness ==
    /\ pc = "exited"
    /\ "-h" \in args
    /\ "-d" \in args
    /\ runs = 0

C17_Terminates ==
    /\ <>(pc \in {"done", "threw"})
    /\ \A f \in 1..2 : (entries[f] > 0) ~> (outcome[f] # "none")
    /\ [](\A f \in 1..2 :
            /\ requests[f] <= MAX_RETRIES
            /\ entries[f] <= MAX_RETRIES
            /\ fetchNo = f => retryCount = entries[f] - 1)
    /\ [](requests[1] + requests[2] <= 2 * MAX_RETRIES)
    /\ [][fetchNo' = fetchNo => retryCount' \in {retryCount, retryCount + 1}]_vars

\* C17 witness: extract returned after both fetch calls used all their
\* attempts, 2 * MAX_RETRIES requests in all.
C17_Witness ==
    /\ pc = "done"
    /\ requests[1] = MAX_RETRIES
    /\ requests[2] = MAX_RETRIES
    /\ outcome[1] = "returned"

\* Fetch call f has returned or thrown: 1, otherwise 0.
Ended(f) == IF outcome[f] = "none" THEN 0 ELSE 1

\* C18: an attempt has exactly one outcome, whatever the order of the
\* response end, the timeout and the request error. Once the promise of an
\* attempt is settled, later callbacks of that attempt leave it and the
\* event that settled it as they are; a callback by itself changes neither
\* where the run is nor the counts of entries, requests and delays; fetch
\* takes the attempt's outcome from the event that settled the promise; and
\* the delays awaited plus the end of the call never exceed the attempts
\* made, so an attempt triggers at most one retry.
C18_OneOutcomePerAttempt ==
    [][ /\ (promise \in {"resolved", "rejected"} /\ entries' = entries) =>
              (promise' = promise /\ settle' = settle)
        /\ (reqState' # reqState /\ entries' = entries) =>
              UNCHANGED <<pc, last, retryCount, entries, requests, delays, outcome>>
        /\ (pc = "await_request" /\ pc' # pc) =>
              /\ promise \in {"resolved", "rejected"}
              /\ last.kind = "pending"
              /\ last'.status = settle.status /\ last'.body = settle.body
              /\ last'.ok => (promise = "resolved" /\ settle.kind = "end")
              /\ promise = "rejected" => pc' \in {"await_delay", "fetch_threw"}
        /\ \A f \in 1..2 :
              /\ delays'[f] + Ended(f)' <= entries'[f]
              /\ entries'[f] <= delays'[f] + 1
              /\ delays'[f] <= delays[f] + 1
      ]_vars

\* C18 witness: the timeout destroyed the request of the first attempt, the
\* destroyed request then emitted its error event, and one delay is awaited.
C18_Witness ==
    /\ pc = "await_delay"
    /\ entries[1] = 1
    /\ delays[1] = 1
    /\ settle.kind = "timeout"
    /\ last.kind = "timeout"
    /\ reqState = "errored"

\* The b elements that satisfy the four-level pattern, in document order:
\* class equal to "ref", inside a div, inside an article, inside a section
\* that match.
InPattern(d, n) ==
    /\ d[n].tag = "b"
    /\ d[n].attr = <<"r", "e", "f">>
    /\ \E v \in 1..Len(d), a \in 1..Len(d), t \in 1..Len(d) :
          /\ d[v].tag = "div" /\ Contains(d[v].attr, <<"7", "8">>)
          /\ d[a].tag = "article" /\ Contains(d[a].attr, <<"4", "5">>)
          /\ d[t].tag = "section" /\ Contains(d[t].attr, <<"9", "2">>)
          /\ IsAncestor(d, v, n) /\ IsAncestor(d, a, v) /\ IsAncestor(d, t, a)

PatternBs(d) == SelectSeq([i \in 1..Len(d) |-> i], LAMBDA n : InPattern(d, n))

\* C9 as stated: a technique that succeeds returns the values of the b
\* elements that satisfy the pattern, each once and in document order,
\* also when matching elements of one level are nested in each other.
C9_ExactlyThePatternValues ==
    (technique # "none" /\ extracted # << >>) =>
        extracted = Values(doc, PatternBs(doc))

\* C10 as stated: a technique selects a b element only if its class
\* attribute equals "ref", and it selects the b of a document whose only b
\* satisfies the pattern.
C10_ClassEqualsRef ==
    technique # "none" =>
        /\ \A k \in 1..Len(selected) : doc[selected[k]].attr = <<"r", "e", "f">>
        /\ \A n \in 1..Len(doc) :
              (InPattern(doc, n) /\ \A m \in 1..Len(doc) : doc[m].tag = "b" => m = n)
                  => selected = <<n>>

=============================================================================
